---- MODULE Spec2Model ----
(***************************************************************************)
(* A model of pqcnet-contracts/quantum: the CHSH sandbox (chsh_sandbox.py) *)
(* and the 5D-EZPH prototype (ezph_pipeline.py).                           *)
(*                                                                         *)
(* Numbers.  Python floats are modelled as exact rationals, plus the one   *)
(* float that is no number, NaN (argparse's type=float accepts "nan").     *)
(*   - a probability is [nan, v]: v stands for v / (2*PGrid), so that 0.5  *)
(*     is v = PGrid; nan is TRUE for NaN (and v is then 0);                *)
(*   - an angle is an integer k standing for k quarter turns (k*pi/2), so  *)
(*     that its cosine and sine are integers;                              *)
(*   - a matrix is [dim, den, nan, m]: entry (i,j) is the complex number   *)
(*     (m[<<i,j>>][1] + i*m[<<i,j>>][2]) / den, or NaN everywhere;         *)
(*   - a real value is [nan, num, den]: num / den, or NaN.                 *)
(***************************************************************************)
EXTENDS Integers, Sequences, FiniteSets, TLC

\* ------------------------------------------------------------------ bounds
\* Grid steps between probability 0 and probability 0.5.
PGrid == 2
\* Longest hyperedge list of a configuration.
MaxEdges == 2
\* Largest absolute shot count given on the command line.
MaxShots == 5

\* ------------------------------------------------- Python float primitives
Num(j) == [nan |-> FALSE, v |-> j]
NaN == [nan |-> TRUE, v |-> 0]
\* Every comparison with NaN is false.
FGt(a, b) == ~a.nan /\ ~b.nan /\ a.v > b.v
FLe(a, b) == ~a.nan /\ ~b.nan /\ a.v <= b.v
\* Python's max(a, b): b when b > a, else a.   min(a, b): b when b < a, else a.
PyMax(a, b) == IF FGt(b, a) THEN b ELSE a
PyMin(a, b) == IF FGt(a, b) THEN b ELSE a

\* Integer max, as max(1, shots // n) on ints.
IMax(a, b) == IF b > a THEN b ELSE a

\* math.cos / math.sin of k quarter turns.
CosQ(k) == CASE k % 4 = 0 -> 1 [] k % 4 = 1 -> 0 [] k % 4 = 2 -> -1 [] OTHER -> 0
SinQ(k) == CASE k % 4 = 0 -> 0 [] k % 4 = 1 -> 1 [] k % 4 = 2 -> 0 [] OTHER -> -1

\* ------------------------------------------------------- complex, matrices
CAdd(x, y) == <<x[1] + y[1], x[2] + y[2]>>
CMul(x, y) == <<x[1] * y[1] - x[2] * y[2], x[1] * y[2] + x[2] * y[1]>>
CScale(c, x) == <<c * x[1], c * x[2]>>

Idx(d) == (0 .. d - 1) \X (0 .. d - 1)

RECURSIVE Pow2(_)
Pow2(n) == IF n = 0 THEN 1 ELSE 2 * Pow2(n - 1)

\* Bit k (0 = most significant) of index i over n qubits.
Bit(i, k, n) == (i \div Pow2(n - 1 - k)) % 2

\* qt.sigmaz(), qt.sigmax(), qt.sigmay(), qt.qeye(2) as 2x2 complex matrices.
SigmaZ == [ij \in Idx(2) |-> IF ij[1] # ij[2] THEN <<0, 0>>
                             ELSE IF ij[1] = 0 THEN <<1, 0>> ELSE <<-1, 0>>]
SigmaX == [ij \in Idx(2) |-> IF ij[1] # ij[2] THEN <<1, 0>> ELSE <<0, 0>>]
SigmaY == [ij \in Idx(2) |-> IF ij[1] = ij[2] THEN <<0, 0>>
                             ELSE IF ij[1] = 0 THEN <<0, -1>> ELSE <<0, 1>>]
Qeye2 == [ij \in Idx(2) |-> IF ij[1] = ij[2] THEN <<1, 0>> ELSE <<0, 0>>]

\* planar_pauli(theta) = cos(theta)*sigmaz + sin(theta)*sigmax
planar_pauli(theta) ==
    [ij \in Idx(2) |-> CAdd(CScale(CosQ(theta), SigmaZ[ij]),
                            CScale(SinQ(theta), SigmaX[ij]))]

\* bloch_operator(theta, phi) =
\*   cos(theta)*sigmaz + sin(theta)*(cos(phi)*sigmax + sin(phi)*sigmay)
bloch_operator(theta, phi) ==
    [ij \in Idx(2) |->
        CAdd(CScale(CosQ(theta), SigmaZ[ij]),
             CScale(SinQ(theta), CAdd(CScale(CosQ(phi), SigmaX[ij]),
                                      CScale(SinQ(phi), SigmaY[ij]))))]

\* qt.tensor(*operators): the Kronecker product of a sequence of 2x2 operators,
\* the first operator on the most significant qubit.
RECURSIVE KronEntry(_, _, _, _)
KronEntry(ops, i, j, k) ==
    IF k > Len(ops) THEN <<1, 0>>
    ELSE CMul(ops[k][<<Bit(i, k - 1, Len(ops)), Bit(j, k - 1, Len(ops))>>],
              KronEntry(ops, i, j, k + 1))
Tensor(ops) == [ij \in Idx(Pow2(Len(ops))) |-> KronEntry(ops, ij[1], ij[2], 1)]

\* ghz_state_dm(dims): ket2dm((|0..0> + |1..1>).unit()): entries 1/2 at the four
\* corners.  bell_state_dm() is the same matrix on two qubits.
ghz_state_dm(dims) ==
    [dim |-> Pow2(dims), den |-> 2, nan |-> FALSE,
     m |-> [ij \in Idx(Pow2(dims)) |->
              IF ij[1] \in {0, Pow2(dims) - 1} /\ ij[2] \in {0, Pow2(dims) - 1}
              THEN <<1, 0>> ELSE <<0, 0>>]]
bell_state_dm == ghz_state_dm(2)

\* (1 - p)*state + p*identity/dim for a number p = j/(2*PGrid), or for NaN.
Mix(state, p) ==
    IF p.nan \/ state.nan
    THEN [dim |-> state.dim, den |-> 1, nan |-> TRUE,
          m |-> [ij \in Idx(state.dim) |-> <<0, 0>>]]
    ELSE [dim |-> state.dim, den |-> state.den * 2 * PGrid * state.dim, nan |-> FALSE,
          m |-> [ij \in Idx(state.dim) |->
                   CAdd(CScale((2 * PGrid - p.v) * state.dim, state.m[ij]),
                        IF ij[1] = ij[2] THEN <<p.v * state.den, 0>> ELSE <<0, 0>>)]]

\* apply_depolarizing(state, probability), chsh_sandbox.py
apply_depolarizing(state, probability) ==
    IF FLe(probability, Num(0)) THEN state
    ELSE Mix(state, PyMin(PyMax(probability, Num(0)), Num(PGrid)))

\* depolarize(state, probability), ezph_pipeline.py
depolarize(state, probability) ==
    LET p == PyMax(Num(0), PyMin(probability, Num(PGrid)))
    IN  IF p = Num(0) THEN state ELSE Mix(state, p)

\* float(np.real(qt.expect(combo, state))): the real part of Tr(combo * state).
RECURSIVE SumRe(_, _, _)
SumRe(combo, state, k) ==
    IF k = state.dim * state.dim THEN 0
    ELSE LET i == k \div state.dim
             j == k % state.dim
         IN  CMul(combo[<<i, j>>], state.m[<<j, i>>])[1] + SumRe(combo, state, k + 1)
Expect(combo, state) ==
    IF state.nan THEN [nan |-> TRUE, num |-> 0, den |-> 1]
    ELSE [nan |-> FALSE, num |-> SumRe(combo, state, 0), den |-> state.den]

\* --------------------------------------------------------- real values
RECURSIVE Gcd(_, _)
Gcd(a, b) == IF b = 0 THEN a ELSE Gcd(b, a % b)
Abs(x) == IF x < 0 THEN -x ELSE x
Val(n, d) ==
    LET g == Gcd(Abs(n), d)
    IN  [nan |-> FALSE, num |-> n \div g, den |-> d \div g]
VNaN == [nan |-> TRUE, num |-> 0, den |-> 1]
VZero == Val(0, 1)
\* a + sign * b, as the float accumulation  acc += sign * value
VAddSigned(a, sign, b) ==
    IF a.nan \/ b.nan THEN VNaN
    ELSE Val(a.num * b.den + sign * b.num * a.den, a.den * b.den)
VGt(a, b) == ~a.nan /\ ~b.nan /\ a.num * b.den > b.num * a.den
VMax(a, b) == IF VGt(b, a) THEN b ELSE a
VMin(a, b) == IF VGt(a, b) THEN b ELSE a

\* ------------------------------------------------------- random generator
\* The seed literal of np.random.default_rng(0x5D5D_C45C).
ChshSeed == 1566426204

\* np.random.default_rng(seed): a fresh generator state.  `entropy` is what the
\* operating system would supply to an unseeded generator; a seeded one ignores it.
DefaultRng_Unseeded(seed, entropy, id) == [id |-> id, seed |-> entropy, draws |-> 0]
DefaultRng(seed, entropy, id) == [id |-> id, seed |-> seed, draws |-> 0]
NoRng == [id |-> 0, seed |-> 0, draws |-> 0]

\* The i-th uniform 16-level variate of the generator's next binomial draw: a fixed
\* function of the seed and of how many draws the handle has served.
Uniform(h, i) == ((h.seed % 97) + 7 * h.draws + 5 * i) % 16

\* rng.binomial(n, p): the number of successes among n Bernoulli(p) trials.
Binomial(h, n, p) ==
    Cardinality({i \in 1 .. n : Uniform(h, i) * p.den < p.num * 16})

\* The generator state after one draw.
RngAdvance(h) == [h EXCEPT !.draws = @ + 1]

\* sample_from_expectation(expectation, shots, rng): [raised, value, rng].
\* rng.binomial raises ValueError for n < 0 and for a NaN p; the final division
\* raises ZeroDivisionError for shots = 0.
sample_from_expectation(expectation, shots, h) ==
    LET e     == VMax(VMin(expectation, Val(1, 1)), Val(-1, 1))
        pplus == IF e.nan THEN VNaN ELSE Val(e.den + e.num, 2 * e.den)
    IN  IF shots < 0 \/ pplus.nan
        THEN [raised |-> "ValueError", value |-> VNaN, rng |-> h]
        ELSE LET counts_plus  == Binomial(h, shots, pplus)
                 counts_minus == shots - counts_plus
             IN  IF shots = 0
                 THEN [raised |-> "ZeroDivisionError", value |-> VNaN,
                       rng |-> RngAdvance(h)]
                 ELSE [raised |-> "none",
                       value |-> Val(counts_plus - counts_minus, shots),
                       rng |-> RngAdvance(h)]

\* shots_per = max(1, shots // n)
ShotsPer_NoFloor(shots, n) == shots \div n
ShotsPer(shots, n) == IMax(1, shots \div n)


\* ------------------------------------------------------------ configuration
\* Largest number of qubits (len(five_d.axes)) of a configuration.
MaxQubits == 2

\* The fields main and the evaluators read from the settings payload.
Fields == {"two_qubit", "alice_angles", "bob_angles", "classical_limit",
           "tsirelson_bound", "five_d_axes", "five_d_target_violation",
           "hyperedges", "edge_participants", "edge_basis", "edge_sign",
           "qrng_epoch", "qrng_seed_hex", "tuple_receipt"}

\* Measurement-axis set of qubit i: selector name -> (theta, phi).  Qubits 0, 1, 2
\* measure X/Y, -Y/-X, Z/-Z, so that no two of them share an operator.
AxisAngles == << <<1, 0>>, <<1, 1>>, <<1, 3>>, <<1, 2>>, <<0, 0>>, <<2, 0>> >>
AxisOf(i) == [sel \in {"primary", "secondary"} |->
                AxisAngles[((2 * i + (IF sel = "primary" THEN 0 ELSE 1)) % 6) + 1]]
AxesOf(n) == [i \in 1 .. n |-> AxisOf(i - 1)]

\* Hyperedges a configuration may list: participants in order, participants out of
\* order, and one participant listed twice (the other qubits get the identity).
EdgeChoices ==
    { [participants |-> <<0, 1>>, basis |-> <<"secondary", "primary">>, sign |-> 1],
      [participants |-> <<1, 0>>, basis |-> <<"secondary", "primary">>, sign |-> -1],
      [participants |-> <<0, 0>>, basis |-> <<"primary", "secondary">>, sign |-> 1] }

RECURSIVE SeqsUpTo(_, _)
SeqsUpTo(S, n) ==
    IF n = 0 THEN {<<>>}
    ELSE LET shorter == SeqsUpTo(S, n - 1)
         IN  shorter \cup {Append(q, x) : q \in {r \in shorter : Len(r) = n - 1}, x \in S}

Payloads ==
    [missing : Fields \cup {"none"},
     alice : {<<0, 1>>}, bob : {<<0, 3>>},
     classical_limit : {2}, tsirelson_bound : {3}, target : {1},
     axes : {AxesOf(n) : n \in 1 .. MaxQubits},
     hyperedges : SeqsUpTo(EdgeChoices, MaxEdges)]

Probabilities == {NaN} \cup {Num(j) : j \in -1 .. PGrid + 1}
ShotCounts == {-MaxShots, 0, 1, MaxShots}

Args == [settingsGiven : BOOLEAN, settingsExists : BOOLEAN, shots : ShotCounts,
         depolarizing : Probabilities, save : BOOLEAN]


\* -------------------------------------------------------------------- state
VARIABLES
    flow,       \* which script runs: "chsh" (chsh_sandbox.py) or "ezph" (ezph_pipeline.py)
    pc,         \* position of the run
    args,       \* the parsed command line
    payload,    \* the content of the settings file
    entropy,    \* what the operating system would seed an unseeded generator with
    rng,        \* the generator handle of main
    rngCount,   \* generators constructed so far in this run
    acc,        \* the evaluator's locals: loop index, exact, sampled, shots_per
    two_qubit,  \* result of evaluate_two_qubit
    five_d,     \* result of evaluate_five_d
    log,        \* the run's computation so far: states built, expectations, draws
    printed,    \* summary lines printed
    saved,      \* the result record was written to args.save
    diag,       \* diagnostic of the abort, "none" while there is none
    run,        \* 1 for the first run, 2 for its repetition
    prev,       \* outcome of the first run, for the repetition to compare with
    lab         \* the bench on which entropy_report is applied to chosen states

vars == <<flow, pc, args, payload, entropy, rng, rngCount, acc, two_qubit, five_d,
          log, printed, saved, diag, run, prev, lab>>

NoAcc == [idx |-> 0, exact |-> VZero, sampled |-> VZero, shots_per |-> 0]
NoResult == [set |-> FALSE, exact |-> VZero, sampled |-> VZero]
NoFiveD == [set |-> FALSE, exact |-> VZero, sampled |-> VZero, dims |-> 0,
            projected_axes |-> <<>>]
NoPrev == [pc |-> "none", diag |-> "none", two_qubit |-> NoResult,
           five_d |-> NoFiveD, printed |-> <<>>, saved |-> FALSE]
NoOps == <<>>
NoLab == [stage |-> "off"]

Has(field) == payload.missing # field

\* One entry of the computation log.
Event(ev, part, term, ops, sign, value, shots, h) ==
    [ev |-> ev, part |-> part, term |-> term, ops |-> ops, sign |-> sign,
     value |-> value, shots |-> shots, handle |-> h.id, seed |-> h.seed,
     draw |-> h.draws]

Fresh ==
    /\ pc = "start"
    /\ rng = NoRng /\ rngCount = 0 /\ acc = NoAcc
    /\ two_qubit = NoResult /\ five_d = NoFiveD
    /\ log = <<>> /\ printed = <<>> /\ saved = FALSE /\ diag = "none"

\* A run of either script on any command line and any settings file.  Inputs that
\* the run never reads are held at one value: the payload when the settings file
\* is absent or the script is ezph_pipeline.py, the numeric arguments of a run on
\* a payload that misses a field or of a run that saves no record.
Init ==
    /\ flow \in {"chsh", "ezph"}
    /\ args \in Args
    /\ flow = "chsh" => args.settingsGiven
    /\ args.settingsExists => args.settingsGiven
    /\ payload \in Payloads
    /\ (flow = "ezph" \/ ~args.settingsExists) =>
         /\ payload.missing = "none" /\ payload.hyperedges = <<>>
         /\ Len(payload.axes) = 1
    /\ payload.missing # "none" =>
         args.shots = MaxShots /\ args.depolarizing = Num(0) /\ args.save
    /\ ~args.save => args.shots = MaxShots /\ args.depolarizing = Num(0)
    /\ entropy = 1
    /\ run = 1 /\ prev = NoPrev
    /\ lab = NoLab
    /\ Fresh

Abort(d) ==
    /\ pc' = "aborted"
    /\ diag' = d

\* ------------------------------------------------------- chsh_sandbox.main
\* main, lines 194-196: parse the command line, check the settings path.
CheckSettings_Inverted ==
    /\ flow = "chsh" /\ pc = "start"
    /\ IF args.settingsExists THEN Abort("SettingsNotFound")
       ELSE pc' = "load" /\ diag' = diag
    /\ UNCHANGED <<flow, args, payload, entropy, rng, rngCount, acc, two_qubit,
                   five_d, log, printed, saved, run, prev, lab>>
CheckSettings ==
    /\ flow = "chsh" /\ pc = "start"
    /\ IF ~args.settingsExists THEN Abort("SettingsNotFound")
       ELSE pc' = "load" /\ diag' = diag
    /\ UNCHANGED <<flow, args, payload, entropy, rng, rngCount, acc, two_qubit,
                   five_d, log, printed, saved, run, prev, lab>>

\* main, lines 198-199: read the settings file, construct the generator.
LoadPayload ==
    /\ flow = "chsh" /\ pc = "load"
    /\ IF ~args.settingsExists
       THEN /\ Abort("FileNotFoundError")
            /\ UNCHANGED <<rng, rngCount, log>>
       ELSE /\ pc' = "two_qubit" /\ diag' = diag
            /\ rng' = DefaultRng(ChshSeed, entropy, rngCount + 1)
            /\ rngCount' = rngCount + 1
            /\ log' = Append(log, Event("rng", "main", 0, NoOps, 0, VZero, 0, rng'))
    /\ UNCHANGED <<flow, args, payload, entropy, acc, two_qubit, five_d, printed,
                   saved, run, prev, lab>>

\* ------------------------------------------------------ evaluate_two_qubit
\* ops and correlators, lines 103-114: (op_a, op_b, sign) in evaluation order.
Correlators_Swapped(alice_angles, bob_angles) ==
    LET A  == planar_pauli(alice_angles[1])
        A2 == planar_pauli(alice_angles[2])
        B  == planar_pauli(bob_angles[1])
        B2 == planar_pauli(bob_angles[2])
    IN  << [ops |-> <<A, B>>, sign |-> 1], [ops |-> <<A, B2>>, sign |-> 1],
           [ops |-> <<A2, B>>, sign |-> 1], [ops |-> <<A2, B2>>, sign |-> -1] >>
Correlators(alice_angles, bob_angles) ==
    LET A  == planar_pauli(alice_angles[1])
        A2 == planar_pauli(alice_angles[2])
        B  == planar_pauli(bob_angles[1])
        B2 == planar_pauli(bob_angles[2])
    IN  << [ops |-> <<A, B>>, sign |-> 1], [ops |-> <<A2, B>>, sign |-> 1],
           [ops |-> <<A, B2>>, sign |-> 1], [ops |-> <<A2, B2>>, sign |-> -1] >>

\* state of evaluate_two_qubit, line 99.
TwoQubitState == apply_depolarizing(bell_state_dm, args.depolarizing)

\* main line 202 (payload["two_qubit"]) and evaluate_two_qubit lines 99-118: build
\* the state, read the angles, build the operators, allot the shots.
TwoQubitBegin ==
    /\ flow = "chsh" /\ pc = "two_qubit"
    /\ IF ~Has("two_qubit")
       THEN Abort("KeyError") /\ UNCHANGED <<acc, log>>
       ELSE /\ log' = Append(log, Event("state", "two_qubit", 0, NoOps, 0, VZero, 0, rng))
            /\ IF ~Has("alice_angles") \/ ~Has("bob_angles")
               THEN Abort("KeyError") /\ UNCHANGED acc
               ELSE /\ acc' = [idx |-> 0, exact |-> VZero, sampled |-> VZero,
                               shots_per |->
                                 ShotsPer(args.shots,
                                          Len(Correlators(payload.alice, payload.bob)))]
                    /\ pc' = "tq_loop" /\ diag' = diag
    /\ UNCHANGED <<flow, args, payload, entropy, rng, rngCount, two_qubit, five_d,
                   printed, saved, run, prev, lab>>

\* One pass of a correlator loop (lines 119-123 and 163-166): the expectation of
\* the tensor operator, exact += sign * value, sampled += sign * sample.
TermStep(part, ops, sign, state, next) ==
    \E value \in {Expect(Tensor(ops), state)} :
    \E sample \in {sample_from_expectation(value, acc.shots_per, rng)} :
        /\ log' = log \o << Event("expect", part, acc.idx + 1, ops, sign, value, 0, rng),
                           Event("draw", part, acc.idx + 1, NoOps, sign, value,
                                 acc.shots_per, rng) >>
        /\ rng' = sample.rng
        /\ IF sample.raised # "none"
           THEN /\ Abort(sample.raised)
                /\ acc' = [acc EXCEPT !.exact = VAddSigned(@, sign, value)]
           ELSE /\ acc' = [acc EXCEPT !.idx = @ + 1,
                                      !.exact = VAddSigned(@, sign, value),
                                      !.sampled = VAddSigned(@, sign, sample.value)]
                /\ pc' = next /\ diag' = diag

\* evaluate_two_qubit, lines 119-123: one correlator.
TwoQubitTerm ==
    /\ flow = "chsh" /\ pc = "tq_loop"
    /\ acc.idx < Len(Correlators(payload.alice, payload.bob))
    /\ LET c == Correlators(payload.alice, payload.bob)[acc.idx + 1]
       IN  TermStep("two_qubit", c.ops, c.sign, TwoQubitState, "tq_loop")
    /\ UNCHANGED <<flow, args, payload, entropy, rngCount, two_qubit, five_d,
                   printed, saved, run, prev, lab>>

\* evaluate_two_qubit, lines 125-130: the result record.
TwoQubitReturn ==
    /\ flow = "chsh" /\ pc = "tq_loop"
    /\ acc.idx = Len(Correlators(payload.alice, payload.bob))
    /\ IF ~Has("classical_limit") \/ ~Has("tsirelson_bound")
       THEN Abort("KeyError") /\ UNCHANGED two_qubit
       ELSE /\ two_qubit' = [set |-> TRUE, exact |-> acc.exact, sampled |-> acc.sampled]
            /\ pc' = "five_d" /\ diag' = diag
    /\ UNCHANGED <<flow, args, payload, entropy, rng, rngCount, acc, five_d, log,
                   printed, saved, run, prev, lab>>

\* --------------------------------------------------------- evaluate_five_d
\* selector_map = {p: basis[idx] for idx, p in enumerate(participants)}: a dict, so
\* a participant listed twice keeps the selector of its last listing.
SelectorMap_First(participants, basis) ==
    [q \in {participants[k] : k \in 1 .. Len(participants)} |->
        basis[CHOOSE k \in 1 .. Len(participants) :
                /\ participants[k] = q
                /\ \A l \in 1 .. Len(participants) : participants[l] = q => l >= k]]
SelectorMap(participants, basis) ==
    [q \in {participants[k] : k \in 1 .. Len(participants)} |->
        basis[CHOOSE k \in 1 .. Len(participants) :
                /\ participants[k] = q
                /\ \A l \in 1 .. Len(participants) : participants[l] = q => l <= k]]

\* build_axis_operator(axis, selector), lines 133-135.
build_axis_operator(axis, selector) == bloch_operator(axis[selector][1], axis[selector][2])

\* operators of one hyperedge, lines 156-162: position idx carries the operator its
\* selector names in axes[idx], or qt.qeye(2) when idx is no participant.
EdgeOperators(axes, edge) ==
    LET selector_map == SelectorMap(edge.participants, edge.basis)
    IN  [idx \in 1 .. Len(axes) |->
            IF (idx - 1) \in DOMAIN selector_map
            THEN build_axis_operator(axes[idx], selector_map[idx - 1])
            ELSE Qeye2]

\* What building the operators of an edge raises: IndexError when basis is shorter
\* than participants, KeyError when an axis set lacks a selector.
EdgeRaises(axes, edge) ==
    IF Len(edge.basis) < Len(edge.participants) THEN "IndexError"
    ELSE IF \E k \in 1 .. Len(edge.participants) :
                /\ edge.participants[k] + 1 \in 1 .. Len(axes)
                /\ SelectorMap(edge.participants, edge.basis)[edge.participants[k]]
                      \notin DOMAIN axes[edge.participants[k] + 1]
         THEN "KeyError"
         ELSE "none"

\* state of evaluate_five_d, line 147.
FiveDState == apply_depolarizing(ghz_state_dm(Len(payload.axes)), args.depolarizing)

\* main lines 207-214 (the arguments are read from the payload in order; rng is the
\* handle main constructed, line 213) and evaluate_five_d lines 146-150.
FiveDBegin ==
    /\ flow = "chsh" /\ pc = "five_d"
    /\ IF ~Has("five_d_axes") \/ ~Has("hyperedges") \/ ~Has("five_d_target_violation")
       THEN Abort("KeyError") /\ UNCHANGED <<acc, log>>
       ELSE /\ log' = Append(log, Event("state", "five_d", 0, NoOps, 0, VZero, 0, rng))
            /\ acc' = [idx |-> 0, exact |-> VZero, sampled |-> VZero,
                       shots_per |->
                         ShotsPer(args.shots, IMax(Len(payload.hyperedges), 1))]
            /\ pc' = "fd_loop" /\ diag' = diag
    /\ UNCHANGED <<flow, args, payload, entropy, rng, rngCount, two_qubit, five_d,
                   printed, saved, run, prev, lab>>

\* evaluate_five_d, lines 152-166: one hyperedge.
FiveDTerm ==
    /\ flow = "chsh" /\ pc = "fd_loop"
    /\ acc.idx < Len(payload.hyperedges)
    /\ LET edge == payload.hyperedges[acc.idx + 1]
       IN  IF ~Has("edge_participants") \/ ~Has("edge_basis") \/ ~Has("edge_sign")
           THEN Abort("KeyError") /\ UNCHANGED <<acc, log, rng>>
           ELSE IF EdgeRaises(payload.axes, edge) # "none"
           THEN Abort(EdgeRaises(payload.axes, edge)) /\ UNCHANGED <<acc, log, rng>>
           ELSE TermStep("five_d", EdgeOperators(payload.axes, edge), edge.sign,
                         FiveDState, "fd_loop")
    /\ UNCHANGED <<flow, args, payload, entropy, rngCount, two_qubit, five_d,
                   printed, saved, run, prev, lab>>

\* project_axes_to_3d(axes), lines 178-190.
project_axes_to_3d(axes) ==
    [i \in 1 .. Len(axes) |->
        LET theta == axes[i]["primary"][1]
            phi   == axes[i]["primary"][2]
        IN  <<SinQ(theta) * CosQ(phi), SinQ(theta) * SinQ(phi), CosQ(theta)>>]

\* evaluate_five_d, lines 168-175: the result record.
FiveDReturn ==
    /\ flow = "chsh" /\ pc = "fd_loop"
    /\ acc.idx = Len(payload.hyperedges)
    /\ five_d' = [set |-> TRUE, exact |-> acc.exact, sampled |-> acc.sampled,
                  dims |-> Len(payload.axes),
                  projected_axes |-> project_axes_to_3d(payload.axes)]
    /\ pc' = "print"
    /\ UNCHANGED <<flow, args, payload, entropy, rng, rngCount, acc, two_qubit, log,
                   printed, saved, diag, run, prev, lab>>

\* ------------------------------------------------- main: summary and record
\* The summary lines of main, lines 216-241, in print order.
SummaryLines == <<"header", "qrng", "tuple", "two_qubit", "five_d_exact",
                  "five_d_sampled", "five_d_target", "axes">>

\* What printing summary line k raises, "none" when it prints.  Line 232 divides
\* args.shots by len(payload['hyperedges']).
LineRaises(k) ==
    CASE SummaryLines[k] = "qrng" ->
           IF Has("qrng_epoch") /\ Has("qrng_seed_hex") THEN "none" ELSE "KeyError"
      [] SummaryLines[k] = "tuple" ->
           IF Has("tuple_receipt") THEN "none" ELSE "KeyError"
      [] SummaryLines[k] = "five_d_sampled" ->
           IF Len(payload.hyperedges) = 0 THEN "ZeroDivisionError"
           ELSE "none"
      [] OTHER -> "none"

\* main, lines 216-241: print the summary, up to the first line that raises.
PrintSummary ==
    /\ flow = "chsh" /\ pc = "print"
    /\ LET bad == {k \in 1 .. Len(SummaryLines) : LineRaises(k) # "none"}
       IN  IF bad = {}
           THEN /\ printed' = SummaryLines
                /\ pc' = "save" /\ diag' = diag
           ELSE LET first == CHOOSE k \in bad : \A l \in bad : k <= l
                IN  /\ printed' = SubSeq(SummaryLines, 1, first - 1)
                    /\ Abort(LineRaises(first))
    /\ UNCHANGED <<flow, args, payload, entropy, rng, rngCount, acc, two_qubit,
                   five_d, log, saved, run, prev, lab>>

\* main, lines 243-251: build the result record, write it when --save is given.
SaveResult ==
    /\ flow = "chsh" /\ pc = "save"
    /\ saved' = args.save
    /\ pc' = "done"
    /\ UNCHANGED <<flow, args, payload, entropy, rng, rngCount, acc, two_qubit,
                   five_d, log, printed, diag, run, prev, lab>>

\* ------------------------------------------------------- ezph_pipeline.py
\* The interpreter compiles the whole file before it runs any of it, and line 151,
\* np.random.default_rng(0x5DEZ_PH), is no hexadecimal literal: every run ends in
\* SyntaxError before main is entered.
EzphCompile ==
    /\ flow = "ezph" /\ pc = "start"
    /\ Abort("SyntaxError")
    /\ UNCHANGED <<flow, args, payload, entropy, rng, rngCount, acc, two_qubit,
                   five_d, log, printed, saved, run, prev, lab>>

\* ------------------------------------------------------------- a second run
\* The same command line on the same settings file, run again: a new process, with
\* whatever the operating system now supplies as entropy.
Rerun ==
    /\ run = 1 /\ pc \in {"done", "aborted"}
    /\ prev' = [pc |-> pc, diag |-> diag, two_qubit |-> two_qubit, five_d |-> five_d,
                printed |-> printed, saved |-> saved]
    /\ run' = 2
    /\ entropy' = entropy + 1
    /\ pc' = "start" /\ rng' = NoRng /\ rngCount' = 0 /\ acc' = NoAcc
    /\ two_qubit' = NoResult /\ five_d' = NoFiveD
    /\ log' = <<>> /\ printed' = <<>> /\ saved' = FALSE /\ diag' = "none"
    /\ UNCHANGED <<flow, args, payload, lab>>

Next ==
    \/ CheckSettings \/ LoadPayload
    \/ TwoQubitBegin \/ TwoQubitTerm \/ TwoQubitReturn
    \/ FiveDBegin \/ FiveDTerm \/ FiveDReturn
    \/ PrintSummary \/ SaveResult
    \/ EzphCompile

Spec == Init /\ [][Next]_vars

NextTwice == Next \/ Rerun
SpecTwice == Init /\ [][NextTwice]_vars

\* ---------------------------------------------- ezph_pipeline.entropy_report
\* No run of ezph_pipeline.py reaches its functions; depolarize and entropy_report
\* are applied here, as the functions they define, to diagonal density matrices.

\* round(10000 * log2(n)) for n = 1 .. 128: np.log2 to four decimal places.
Log2E4 ==
    <<
       0, 10000, 15850, 20000, 23219, 25850, 28074, 30000, 31699, 33219,
       34594, 35850, 37004, 38074, 39069, 40000, 40875, 41699, 42479, 43219,
       43923, 44594, 45236, 45850, 46439, 47004, 47549, 48074, 48580, 49069,
       49542, 50000, 50444, 50875, 51293, 51699, 52095, 52479, 52854, 53219,
       53576, 53923, 54263, 54594, 54919, 55236, 55546, 55850, 56147, 56439,
       56724, 57004, 57279, 57549, 57814, 58074, 58329, 58580, 58826, 59069,
       59307, 59542, 59773, 60000, 60224, 60444, 60661, 60875, 61085, 61293,
       61497, 61699, 61898, 62095, 62288, 62479, 62668, 62854, 63038, 63219,
       63399, 63576, 63750, 63923, 64094, 64263, 64429, 64594, 64757, 64919,
       65078, 65236, 65392, 65546, 65699, 65850, 65999, 66147, 66294, 66439,
       66582, 66724, 66865, 67004, 67142, 67279, 67415, 67549, 67682, 67814,
       67944, 68074, 68202, 68329, 68455, 68580, 68704, 68826, 68948, 69069,
       69189, 69307, 69425, 69542, 69658, 69773, 69887, 70000
    >>

\* state.eigenenergies() of a diagonal matrix: its diagonal, over state.den.
Eigenenergies(state) == [i \in 1 .. state.dim |-> state.m[<<i - 1, i - 1>>][1]]

RECURSIVE SumAbs(_, _)
SumAbs(q, k) == IF k > Len(q) THEN 0 ELSE Abs(q[k]) + SumAbs(q, k + 1)

\* shannon = -sum(probs * log2(probs)) over probs > 0, probs = |spectrum| / sum(|spectrum|),
\* lines 107-108: as [num, den], in units of 1/10000 bit.
RECURSIVE ShannonNum(_, _, _)
ShannonNum(q, total, k) ==
    IF k > Len(q) THEN 0
    ELSE (IF q[k] = 0 THEN 0 ELSE Abs(q[k]) * (Log2E4[total] - Log2E4[Abs(q[k])]))
         + ShannonNum(q, total, k + 1)
Shannon(spectrum) ==
    [num |-> ShannonNum(spectrum, SumAbs(spectrum, 1), 1), den |-> SumAbs(spectrum, 1)]

\* leak_bits = 2 ** (-shannon * len(probs)), line 109, kept as its base-2 logarithm:
\* [num, den] in units of 1/10000.  2 ** x rises with x, so leaks compare as their
\* logarithms do.
LeakBits_PlusExponent(shannon, n) == [num |-> shannon.num * n, den |-> shannon.den]
LeakBits(shannon, n) == [num |-> -(shannon.num * n), den |-> shannon.den]
LeakLess(a, b) == a.num * b.den < b.num * a.den
LeakSame(a, b) == a.num * b.den = b.num * a.den

\* entropy_report(state, ciphertext)["entropy_leak_bits"], lines 105-109 and 117.
entropy_report(state) ==
    LeakBits(Shannon(Eigenenergies(state)), Len(Eigenenergies(state)))

\* Diagonal density matrices, spectrum over 4: pure, mixed, maximally mixed.
Diagonal(spectrum) ==
    [dim |-> Len(spectrum), den |-> 4, nan |-> FALSE,
     m |-> [ij \in Idx(Len(spectrum)) |->
              IF ij[1] = ij[2] THEN <<spectrum[ij[1] + 1], 0>> ELSE <<0, 0>>]]
BaseStates ==
    {Diagonal(q) : q \in {<<4, 0>>, <<1, 3>>, <<2, 2>>,
                          <<4, 0, 0, 0>>, <<0, 2, 1, 1>>, <<1, 1, 1, 1>>}}

IdleArgs == [settingsGiven |-> FALSE, settingsExists |-> FALSE, shots |-> 0,
             depolarizing |-> Num(0), save |-> FALSE]
IdlePayload == [missing |-> "none", alice |-> <<0, 1>>, bob |-> <<0, 3>>,
                classical_limit |-> 2, tsirelson_bound |-> 3, target |-> 1,
                axes |-> AxesOf(1), hyperedges |-> <<>>]

\* One base state and two depolarizing probabilities to compare.
InitPrivacy ==
    /\ flow = "bench" /\ pc = "bench"
    /\ args = IdleArgs /\ payload = IdlePayload
    /\ entropy = 1 /\ run = 1 /\ prev = NoPrev
    /\ rng = NoRng /\ rngCount = 0 /\ acc = NoAcc
    /\ two_qubit = NoResult /\ five_d = NoFiveD
    /\ log = <<>> /\ printed = <<>> /\ saved = FALSE /\ diag = "none"
    /\ \E base \in BaseStates, p1, p2 \in Probabilities :
          lab = [stage |-> "chosen", base |-> base, p1 |-> p1, p2 |-> p2,
                 s1 |-> base, s2 |-> base,
                 leak1 |-> LeakBits(Shannon(<<1>>), 1),
                 leak2 |-> LeakBits(Shannon(<<1>>), 1)]

BenchDepolarize ==
    /\ lab.stage = "chosen"
    /\ lab' = [lab EXCEPT !.stage = "mixed",
                          !.s1 = depolarize(lab.base, lab.p1),
                          !.s2 = depolarize(lab.base, lab.p2)]
    /\ UNCHANGED <<flow, pc, args, payload, entropy, rng, rngCount, acc, two_qubit,
                   five_d, log, printed, saved, diag, run, prev>>

BenchReport ==
    /\ lab.stage = "mixed" /\ ~lab.s1.nan /\ ~lab.s2.nan
    /\ lab' = [lab EXCEPT !.stage = "reported",
                          !.leak1 = entropy_report(lab.s1),
                          !.leak2 = entropy_report(lab.s2)]
    /\ UNCHANGED <<flow, pc, args, payload, entropy, rng, rngCount, acc, two_qubit,
                   five_d, log, printed, saved, diag, run, prev>>

NextPrivacy == BenchDepolarize \/ BenchReport
SpecPrivacy == InitPrivacy /\ [][NextPrivacy]_vars

\* =================================================================== claims
\* Views of the computation log.
RECURSIVE Select(_, _)
Select(q, kinds) ==
    IF q = <<>> THEN <<>>
    ELSE IF Head(q).ev \in kinds THEN <<Head(q)>> \o Select(Tail(q), kinds)
    ELSE Select(Tail(q), kinds)
RECURSIVE SelectPart(_, _)
SelectPart(q, part) ==
    IF q = <<>> THEN <<>>
    ELSE IF Head(q).part = part THEN <<Head(q)>> \o SelectPart(Tail(q), part)
    ELSE SelectPart(Tail(q), part)
Computed == Select(log, {"state", "expect", "draw"})
Expects(part) == SelectPart(Select(log, {"expect"}), part)
Draws == Select(log, {"draw"})
Ended == pc \in {"done", "aborted"}

\* C1: when the settings path given to a run does not exist, the run aborts with a
\* diagnostic (in chsh_sandbox.py the "Settings file not found" exit) and nothing has
\* been computed: no state built, no expectation evaluated, no generator constructed
\* or drawn from, nothing printed, nothing saved.
C1_AbsentSettingsAbortFirst ==
    (args.settingsGiven /\ ~args.settingsExists /\ pc # "start") =>
        /\ pc = "aborted"
        /\ diag # "none"
        /\ flow = "chsh" => diag = "SettingsNotFound"
        /\ log = <<>> /\ rng = NoRng /\ rngCount = 0
        /\ ~two_qubit.set /\ ~five_d.set
        /\ printed = <<>> /\ ~saved
C1_Witness ==
    /\ flow = "chsh" /\ ~args.settingsExists /\ args.save
    /\ pc = "aborted" /\ diag = "SettingsNotFound"

\* C2: a run whose payload misses one of the fields the claim lists aborts before
\* its first state construction, expectation evaluation and generator draw.
ListedFields == Fields \ {"qrng_epoch", "tuple_receipt"}
C2_MalformedAbortsBeforeComputing ==
    (payload.missing \in ListedFields /\ pc = "aborted") => Computed = <<>>

\* C3: a run of chsh_sandbox.py on a well-formed payload never aborts, whatever
\* number the depolarizing probability is, whatever the shot count, however many
\* hyperedges there are; for no hyperedges the multi-party sums are 0.
C3_EdgeCasesNeverAbort ==
    (flow = "chsh" /\ args.settingsExists /\ payload.missing = "none"
        /\ ~args.depolarizing.nan) =>
        /\ pc # "aborted"
        /\ (five_d.set /\ payload.hyperedges = <<>>) =>
              five_d.exact = VZero /\ five_d.sampled = VZero

\* C4: every call of the sampler is given max(1, shots // terms) shots, terms being
\* 4 for the two-party correlators and the number of hyperedges for the multi-party
\* ones: at least one shot, so the sampler never divides by zero.
TermCount(part) == IF part = "two_qubit" THEN 4 ELSE Len(payload.hyperedges)
RECURSIVE SignedSum(_)
SignedSum(q) ==
    IF q = <<>> THEN VZero
    ELSE VAddSigned(SignedSum(SubSeq(q, 1, Len(q) - 1)), q[Len(q)].sign, q[Len(q)].value)
TwoPartyTerms ==
    << <<payload.alice[1], payload.bob[1], 1>>, <<payload.alice[2], payload.bob[1], 1>>,
       <<payload.alice[1], payload.bob[2], 1>>, <<payload.alice[2], payload.bob[2], -1>> >>
C5_FixedSummationOrder ==
    \A two \in {Expects("two_qubit")} : \A five \in {Expects("five_d")} :
    /\ Len(two) <= 4
    /\ \A k \in 1 .. Len(two) :
          /\ two[k].term = k
          /\ two[k].ops = <<planar_pauli(TwoPartyTerms[k][1]),
                            planar_pauli(TwoPartyTerms[k][2])>>
          /\ two[k].sign = TwoPartyTerms[k][3]
    /\ Len(five) <= Len(payload.hyperedges)
    /\ \A k \in 1 .. Len(five) :
          /\ five[k].term = k
          /\ five[k].sign = payload.hyperedges[k].sign
    /\ pc = "tq_loop" => acc.exact = SignedSum(two)
    /\ pc = "fd_loop" => acc.exact = SignedSum(five)
    /\ two_qubit.set => Len(two) = 4 /\ two_qubit.exact = SignedSum(two)
    /\ five_d.set =>
          Len(five) = Len(payload.hyperedges) /\ five_d.exact = SignedSum(five)
C5_Witness ==
    /\ pc = "done" /\ Len(payload.hyperedges) >= 2
    /\ payload.hyperedges[1] # payload.hyperedges[2]
    /\ two_qubit.exact # VZero /\ five_d.exact # VZero

\* C6: every run that has the settings it needs constructs one generator, from the
\* fixed seed, and all sampling goes through it in call order: the k-th draw of the
\* run is the k-th draw of that handle and belongs to the k-th term (the four
\* two-party terms, then the hyperedges), one draw per term.
C6_ThreadedDraws ==
    \A draws \in {Draws} :
    /\ rngCount <= 1
    /\ \A k \in 1 .. Len(draws) :
          /\ draws[k].handle = 1 /\ draws[k].seed = ChshSeed
          /\ draws[k].draw = k - 1
          /\ IF k <= 4 THEN draws[k].part = "two_qubit" /\ draws[k].term = k
             ELSE draws[k].part = "five_d" /\ draws[k].term = k - 4
    /\ Len(draws) = Len(Select(log, {"expect"}))
    /\ rng.draws \in {Len(draws), Len(draws) - 1}
    /\ pc = "done" => rng.draws = 4 + Len(payload.hyperedges)
C6_OneSeededHandlePerRun ==
    /\ C6_ThreadedDraws
    /\ (Ended /\ (args.settingsExists \/ ~args.settingsGiven)) =>
          rngCount = 1 /\ rng.seed = ChshSeed

\* C7: a second run on the same settings file with the same shot count and the same
\* depolarizing probability ends as the first did, with the same exact and the same
\* sampled value in both results, whatever else differs between the two processes.
C7_SameInputsSameOutputs ==
    (run = 2 /\ Ended) =>
        /\ pc = prev.pc /\ diag = prev.diag
        /\ two_qubit = prev.two_qubit
        /\ five_d = prev.five_d
C7_Witness ==
    /\ run = 2 /\ pc = "done" /\ entropy # 1
    /\ two_qubit.sampled # two_qubit.exact
    /\ five_d.sampled # five_d.exact

\* C8: both depolarizing implementations clamp the probability to [0, 0.5] and
\* never reject it: the state itself for p <= 0, (1-p)*state + p*I/dim for
\* 0 < p <= 0.5, the result for 0.5 beyond; and they agree on every (state, p).
Clamped(p) == IF p.nan THEN p
              ELSE IF p.v < 0 THEN Num(0) ELSE IF p.v > PGrid THEN Num(PGrid) ELSE p
DepolarizingAgrees(state, p) ==
    /\ apply_depolarizing(state, p) = depolarize(state, p)
    /\ ~apply_depolarizing(state, p).nan
    /\ (~p.nan /\ p.v <= 0) => apply_depolarizing(state, p) = state
    /\ (~p.nan /\ p.v > 0) => apply_depolarizing(state, p) = Mix(state, Clamped(p))
C8_DepolarizingClampsAlike ==
    /\ Select(log, {"state"}) # <<>> => DepolarizingAgrees(bell_state_dm, args.depolarizing)
    /\ SelectPart(Select(log, {"state"}), "five_d") # <<>> =>
          DepolarizingAgrees(ghz_state_dm(Len(payload.axes)), args.depolarizing)
\* The same for every probability that is a number.
C8_NumbersClampAlike == ~args.depolarizing.nan => C8_DepolarizingClampsAlike

\* C10 as stated: the tensor operator of a hyperedge has one factor per qubit, in
\* order; position i carries the operator basis[j] selects from axes[i] whenever
\* participants[j] = i, and the identity when i is no participant.
C10_LayoutEveryListing ==
    \A five \in {Expects("five_d")} : \A k \in 1 .. Len(five) :
        LET e    == five[k]
            edge == payload.hyperedges[k]
        IN  /\ Len(e.ops) = Len(payload.axes)
            /\ \A i \in 0 .. Len(payload.axes) - 1 :
                 /\ \A j \in 1 .. Len(edge.participants) :
                       edge.participants[j] = i =>
                          e.ops[i + 1] = build_axis_operator(payload.axes[i + 1],
                                                             edge.basis[j])
                 /\ (\A j \in 1 .. Len(edge.participants) : edge.participants[j] # i)
                       => e.ops[i + 1] = Qeye2

\* C10, amended: as above, where a participant listed more than once takes the
\* selector of its last listing.
C10_LayoutLastListing ==
    \A five \in {Expects("five_d")} : \A k \in 1 .. Len(five) :
        LET e    == five[k]
            edge == payload.hyperedges[k]
            Last(i) == {j \in 1 .. Len(edge.participants) :
                          /\ edge.participants[j] = i
                          /\ \A l \in j + 1 .. Len(edge.participants) :
                                edge.participants[l] # i}
        IN  /\ Len(e.ops) = Len(payload.axes)
            /\ \A i \in 0 .. Len(payload.axes) - 1 :
                 /\ \A j \in Last(i) :
                       e.ops[i + 1] = build_axis_operator(payload.axes[i + 1],
                                                          edge.basis[j])
                 /\ Last(i) = {} => e.ops[i + 1] = Qeye2
C10_Witness ==
    \E five \in {Expects("five_d")} : \E k, l \in 1 .. Len(five) :
        /\ Len(payload.axes) = 2
        /\ payload.hyperedges[k].participants = <<1, 0>>
        /\ five[k].ops[1] # five[k].ops[2]
        /\ payload.hyperedges[l].participants = <<0, 0>>
        /\ five[l].ops[2] = Qeye2

\* C9 as stated: on a fixed base state, a larger depolarizing probability between
\* 0.0 and 0.3 gives a strictly larger entropy_leak_bits.
UpTo03(p) == ~p.nan /\ p.v >= 0 /\ 10 * p.v <= 3 * 2 * PGrid
C9_LeakRisesWithNoise ==
    (lab.stage = "reported" /\ UpTo03(lab.p1) /\ UpTo03(lab.p2) /\ lab.p1.v < lab.p2.v)
        => LeakLess(lab.leak1, lab.leak2)

\* C9, amended: on a fixed base state, a larger depolarizing probability within
\* [0, 0.5] gives a strictly smaller entropy_leak_bits = 2^(-H*k), unless the base
\* state is maximally mixed, when the leak stays as it is.
InRange(p) == ~p.nan /\ p.v >= 0 /\ p.v <= PGrid
MaximallyMixed(state) ==
    \A i, j \in 1 .. state.dim : Eigenenergies(state)[i] = Eigenenergies(state)[j]
C9_LeakFallsWithNoise ==
    (lab.stage = "reported" /\ InRange(lab.p1) /\ InRange(lab.p2) /\ lab.p1.v < lab.p2.v)
        => IF MaximallyMixed(lab.base) THEN LeakSame(lab.leak1, lab.leak2)
           ELSE LeakLess(lab.leak2, lab.leak1)
C9_Witness ==
    /\ lab.stage = "reported" /\ lab.p1 = Num(0) /\ lab.p2 = Num(1)
    /\ lab.base.dim = 4 /\ ~MaximallyMixed(lab.base)
    /\ LeakLess(lab.leak2, lab.leak1)
====
